---- MODULE Spec2Model ----
(***************************************************************************)
(* Model of terraform-provider-azurex: the azurex_subscription_tags        *)
(* resource (Create / Read / Update / Delete / ImportState), its helper    *)
(* applyTags, and the tag-inheritance SettingsClient, run against an       *)
(* Azure that stores tags per scope and one tag-inheritance setting per    *)
(* settings URL.  Every Azure call is one atomic step, so a handler that   *)
(* issues two calls is two steps and other writers can act in between.     *)
(***************************************************************************)
EXTENDS Naturals, Sequences, FiniteSets, TLC

\* ------------------------------------------------------------------ bounds
NumKeys == 1
NumValues == 2
NumSubscriptions == 2
MaxEmptyApplies == 2
NumResponseKeys == 2

Keys == {"tag" \o ToString(i) : i \in 1..NumKeys}
Values == {"value" \o ToString(i) : i \in 1..NumValues}
SubIds == {"sub" \o ToString(i) : i \in 1..NumSubscriptions}
Resources == {"r1", "r2"}

\* subscription_id of the provider configuration (the example's provider block
\* sets one; every subscription of SubIds is like any other).
ProviderSubscriptionID == "sub1"

\* ------------------------------------------------------------- data model
\* A Go pointer / nullable value: <<>> is nil, <<v>> points at v.
Nil == <<>>
Ptr(v) == <<v>>

\* map[string]string, the element type of the tags attribute.
EmptyTags == [k \in {} |-> ""]
TfTagMaps == UNION {[D -> Values] : D \in SUBSET Keys}

\* map[string]*string, what Azure stores and returns for a scope.
AzureValues == {Nil} \cup {Ptr(v) : v \in Values}
AzureTagMaps == UNION {[D -> AzureValues] : D \in SUBSET Keys}

\* The tags a subscription can hold when Read finds it: tags nobody declared
\* here among them.
ResponseKeys == {"tag" \o ToString(i) : i \in 1..NumResponseKeys}
ResponseTagMaps == UNION {[D -> AzureValues] : D \in SUBSET ResponseKeys}

\* SubscriptionTagsResourceModel
Models ==
  [Tags : TfTagMaps, InheritTags : BOOLEAN, PreferContainers : BOOLEAN,
   RemoveTags : BOOLEAN, RemoteInheritTags : BOOLEAN]

\* Attribute names of the resource schema.
ResourceSchemaAttributes ==
  {"tags", "inherit_tags", "prefer_containers", "ondelete_remove_tags",
   "ondelete_remove_inherit_tags"}

\* TagInheritanceResponse, reduced to the two fields the provider reads.
ZeroTagInheritanceResponse == [Id |-> "", PreferContainerTags |-> FALSE]

\* ------------------------------------------------------- request building
\* fmt.Sprintf("/subscriptions/%s", subscriptionID)
Scope(subscriptionID) == "/subscriptions/" \o subscriptionID

TagScopes == {Scope(s) : s \in SubIds}

\* urlPath of getTagInheritanceRequest / createTagInheritanceRequest: it is
\* joined to the ARM endpoint with no subscription in front of it.
TagInheritanceUrlPath == "/providers/Microsoft.CostManagement/settings/taginheritance"

\* The settings URLs Azure knows: the one the client addresses and the
\* subscription-scoped ones.
SettingsUrls == {TagInheritanceUrlPath} \cup {sc \o TagInheritanceUrlPath : sc \in TagScopes}

\* The body createTagInheritanceRequest marshals.
TagInheritanceRequest(preferContainerTags) ==
  [Kind |-> "taginheritance", PreferContainerTags |-> preferContainerTags]

\* The PUT request of EnableTagInheritance / DisableTagInheritance.
createTagInheritanceRequest(preferContainerTags) ==
  [Method |-> "PUT", Url |-> TagInheritanceUrlPath, ApiVersion |-> "2022-10-01-preview",
   Body |-> TagInheritanceRequest(preferContainerTags)]

\* EnableTagInheritance sending the opposite of the value it was given.
EnableTagInheritanceRequestNegated(preferContainerTags) ==
  createTagInheritanceRequest(~preferContainerTags)

\* The request of EnableTagInheritance(ctx, preferContainerTags).
EnableTagInheritanceRequest(preferContainerTags) == createTagInheritanceRequest(preferContainerTags)

\* The GET request of GetTagInheritance.
getTagInheritanceRequest ==
  [Method |-> "GET", Url |-> TagInheritanceUrlPath, ApiVersion |-> "2022-10-01-preview"]

\* DisableTagInheritance asking for container tags to be preferred.
DisableTagInheritanceRequestPrefers == createTagInheritanceRequest(TRUE)

\* The request of DisableTagInheritance: createTagInheritanceRequest(ctx, false).
DisableTagInheritanceRequest == createTagInheritanceRequest(FALSE)

\* ------------------------------------------------------------ conversions
\* applyTags storing a pointer that was never set.
AzureTagsNilValues(tagMap) == [k \in DOMAIN tagMap |-> Nil]

\* applyTags: map[string]string -> map[string]*string, every value non-nil.
AzureTags(tagMap) == [k \in DOMAIN tagMap |-> Ptr(tagMap[k])]

\* Read giving a tag without value the empty string.
TfTagsNilAsEmpty(tagsResponse) ==
  IF tagsResponse.HasProperties /\ tagsResponse.HasTags
    THEN [k \in DOMAIN tagsResponse.Tags |->
            IF tagsResponse.Tags[k] = Nil THEN "" ELSE tagsResponse.Tags[k][1]]
    ELSE EmptyTags

\* Read that keeps the keys but not the values of the response.
TfTagsKeysOnly(tagsResponse) ==
  IF tagsResponse.HasProperties /\ tagsResponse.HasTags
    THEN [k \in {x \in DOMAIN tagsResponse.Tags : tagsResponse.Tags[x] # Nil} |-> ""]
    ELSE EmptyTags

\* Read: the tags of a GetAtScope response as map[string]string; a nil
\* Properties, a nil Tags map and nil values contribute nothing.
TfTags(tagsResponse) ==
  IF tagsResponse.HasProperties /\ tagsResponse.HasTags
    THEN [k \in {x \in DOMAIN tagsResponse.Tags : tagsResponse.Tags[x] # Nil}
            |-> tagsResponse.Tags[k][1]]
    ELSE EmptyTags

\* The shapes in which Azure can report the tags stored for a scope.
TagsResponses(stored) ==
  {[HasProperties |-> TRUE, HasTags |-> TRUE, Tags |-> stored]}
    \cup (IF stored = EmptyTags
            THEN {[HasProperties |-> TRUE, HasTags |-> FALSE, Tags |-> EmptyTags],
                  [HasProperties |-> FALSE, HasTags |-> FALSE, Tags |-> EmptyTags]}
            ELSE {})

\* ------------------------------------------------------------------ Azure
\* CreateOrUpdateAtScope replaces the tags stored for the scope by the body.
CreateOrUpdateAtScope(stored, scope, body) == [stored EXCEPT ![scope] = body]

\* What a PUT of the tag-inheritance setting can come back with.  err is the
\* Go error of Pipeline().Do / UnmarshalAsJSON.  Without an error the body is
\* either the setting now stored (Azure applies the requested value or keeps
\* the value already configured), or a body without settings fields (the
\* client does not look at the HTTP status), which unmarshals to the zero
\* response and leaves the setting as it was.
PutTagInheritanceOutcomes(stored, request) ==
  {[err |-> TRUE, resp |-> ZeroTagInheritanceResponse, after |-> stored],
   [err |-> FALSE, resp |-> ZeroTagInheritanceResponse, after |-> stored]}
    \cup
  {[err |-> FALSE,
    resp |-> [Id |-> request.Url, PreferContainerTags |-> eff],
    after |-> [Id |-> request.Url, PreferContainerTags |-> eff]]
     : eff \in {request.Body.PreferContainerTags}
                 \cup (IF stored.Id # "" THEN {stored.PreferContainerTags} ELSE {})}

\* What a GET of the tag-inheritance setting can come back with.
GetTagInheritanceOutcomes(stored) ==
  {[err |-> TRUE, resp |-> ZeroTagInheritanceResponse],
   [err |-> FALSE, resp |-> ZeroTagInheritanceResponse],
   [err |-> FALSE, resp |-> stored]}

SettingsValues ==
  {ZeroTagInheritanceResponse}
    \cup {[Id |-> TagInheritanceUrlPath, PreferContainerTags |-> b] : b \in BOOLEAN}

\* ------------------------------------------------------- handler decisions
\* Create calling EnableTagInheritance whatever inherit_tags says.
CreateAfterApplyTagsEnablesAlways(data, err) ==
  IF err THEN "abort" ELSE "enable"

\* Create going on after applyTags failed.
CreateAfterApplyTagsIgnoresError(data, err) ==
  IF data.InheritTags THEN "enable" ELSE "set"

\* Create, after applyTags returned: stop on the error, else enable
\* inheritance when the plan asks for it, else write the plan to state.
CreateAfterApplyTags(data, err) ==
  IF err THEN "abort" ELSE IF data.InheritTags THEN "enable" ELSE "set"

\* Create / Update copying preferContainerTags from the response also when
\* the response has no identifier.
ModelAfterEnableIgnoresId(data, tagInheritance) ==
  [data EXCEPT !.PreferContainers = tagInheritance.PreferContainerTags]

\* Create and Update keeping the declared prefer_containers.
ModelAfterEnableKeepsDeclared(data, tagInheritance) ==
  IF tagInheritance.Id # "" THEN [data EXCEPT !.InheritTags = TRUE] ELSE data

\* Create and Update, after EnableTagInheritance returned without error: a
\* response with an identifier overrides inherit_tags and prefer_containers.
ModelAfterEnable(data, tagInheritance) ==
  IF tagInheritance.Id # ""
    THEN [data EXCEPT !.InheritTags = TRUE,
                      !.PreferContainers = tagInheritance.PreferContainerTags]
    ELSE data

\* Read clearing prefer_containers along with inherit_tags.
ModelAfterGetTagInheritanceClearsPrefer(data, tagInheritance) ==
  IF tagInheritance.Id # ""
    THEN [data EXCEPT !.InheritTags = TRUE,
                      !.PreferContainers = tagInheritance.PreferContainerTags]
    ELSE [data EXCEPT !.InheritTags = FALSE, !.PreferContainers = FALSE]

\* Read, after GetTagInheritance returned without error: a response with an
\* identifier sets inherit_tags and prefer_containers, one without sets
\* inherit_tags to false and leaves prefer_containers alone.
ModelAfterGetTagInheritance(data, tagInheritance) ==
  IF tagInheritance.Id # ""
    THEN [data EXCEPT !.InheritTags = TRUE,
                      !.PreferContainers = tagInheritance.PreferContainerTags]
    ELSE [data EXCEPT !.InheritTags = FALSE]

\* Update disabling inheritance whenever the plan has it off.
UpdateAfterApplyTagsDisablesAlways(oldModel, data, err) ==
  IF err THEN "abort"
  ELSE IF data.InheritTags THEN "enable"
  ELSE "disable"

\* Update, after applyTags returned.
UpdateAfterApplyTags(oldModel, data, err) ==
  IF err THEN "abort"
  ELSE IF data.InheritTags THEN "enable"
  ELSE IF oldModel.InheritTags /\ ~data.InheritTags THEN "disable"
  ELSE "set"

\* Update, after DisableTagInheritance, recording the tags of the
\* DisableTagInheritance response (it has none) in place of the planned ones.
ModelAfterDisableReadsBack(data) ==
  [data EXCEPT !.InheritTags = FALSE, !.Tags = EmptyTags]

\* Update, after DisableTagInheritance returned without error.
ModelAfterDisable(data) == [data EXCEPT !.InheritTags = FALSE]

\* Delete clearing the tags whatever ondelete_remove_tags says.
DeleteRemovesTagsAlways(data) == TRUE

\* Delete: whether the tags are cleared, and the mapping applied to clear them.
DeleteRemovesTags(data) == data.RemoveTags

\* Delete re-applying the tags of the state instead of none.
DeleteTagMapFromState(data) == data.Tags

DeleteTagMap(data) == EmptyTags

\* Delete disabling inheritance without looking at
\* ondelete_remove_inherit_tags.
DeleteAfterRemoveTagsIgnoresRemoteInheritTags(data, err) ==
  IF err THEN "abort"
  ELSE IF data.InheritTags THEN "disable"
  ELSE "done"

\* Delete disabling inheritance without looking at inherit_tags.
DeleteAfterRemoveTagsIgnoresInheritTags(data, err) ==
  IF err THEN "abort"
  ELSE IF data.RemoteInheritTags THEN "disable"
  ELSE "done"

\* Delete going on to the inheritance step after the tag removal failed.
DeleteAfterRemoveTagsIgnoresError(data, err) ==
  IF data.RemoteInheritTags /\ data.InheritTags THEN "disable"
  ELSE IF err THEN "abort"
  ELSE "done"

\* Delete, after the optional tag clear (err is FALSE when it was skipped).
DeleteAfterRemoveTags(data, err) ==
  IF err THEN "abort"
  ELSE IF data.RemoteInheritTags /\ data.InheritTags THEN "disable"
  ELSE "done"

\* ImportState: ImportStatePassthroughID writes the identifier to this path.
ImportStateAttribute == "subscription_id"

\* State.SetAttribute accepts only a path of the resource schema.
ImportStateAccepted == ImportStateAttribute \in ResourceSchemaAttributes

\* The model a later handler decodes from a state that holds nothing but the
\* imported attribute.
ImportedModel ==
  [Tags |-> EmptyTags, InheritTags |-> FALSE, PreferContainers |-> FALSE,
   RemoveTags |-> FALSE, RemoteInheritTags |-> FALSE]

\* ------------------------------------------------- provider configuration
\* The environment variables Configure reads; os.Getenv gives "" for one
\* that is not set.
EnvNames ==
  {"ARM_SUBSCRIPTION_ID", "ARM_TENANT_ID", "ARM_CLIENT_ID", "ARM_CLIENT_SECRET",
   "ARM_CLIENT_CERTIFICATE_FILE", "AZURE_FEDERATED_TOKEN_FILE", "AZURE_CLIENT_ID"}

\* Files on disk: os.ReadFile fails for the first set, and
\* azidentity.ParseCertificates for the content of the second.
UnreadableFiles == {"missing.pem", "missing.jwt"}
UnparseableCertificates == {"garbage.pem"}

\* The values each variable takes here ("": not set).
EnvValues(name) ==
  CASE name = "ARM_SUBSCRIPTION_ID" -> {"", "sub2"}
    [] name = "ARM_TENANT_ID" -> {"", "tenant2"}
    [] name = "ARM_CLIENT_ID" -> {"", "app2"}
    [] name = "ARM_CLIENT_SECRET" -> {"", "secret2"}
    [] name = "ARM_CLIENT_CERTIFICATE_FILE" -> {"", "missing.pem", "garbage.pem", "cert.pem"}
    [] name = "AZURE_FEDERATED_TOKEN_FILE" -> {"", "missing.jwt", "token.jwt"}
    [] name = "AZURE_CLIENT_ID" -> {"", "app3"}

Envs == {e \in [EnvNames -> UNION {EnvValues(n) : n \in EnvNames}] :
           \A n \in EnvNames : e[n] \in EnvValues(n)}

\* AzurexProviderModel as req.Config.Get decodes the provider block: every
\* attribute is optional, Nil is the null string.
AzurexProviderModels ==
  [SubscriptionID : {Nil, Ptr(ProviderSubscriptionID)}, TenantID : {Nil, Ptr("tenant1")},
   ClientID : {Nil, Ptr("app1")}, ClientSecret : {Nil, Ptr("secret1")}]

\* types.String.ValueString(): "" for null.
ValueString(v) == IF v = Nil THEN "" ELSE v[1]

\* Configure, the environment overrides: ARM_SUBSCRIPTION_ID and
\* ARM_TENANT_ID replace the configured values when they are not empty.
AzurexProviderData(configured, e) ==
  [configured EXCEPT
     !.SubscriptionID = IF e["ARM_SUBSCRIPTION_ID"] # "" THEN Ptr(e["ARM_SUBSCRIPTION_ID"]) ELSE @,
     !.TenantID = IF e["ARM_TENANT_ID"] # "" THEN Ptr(e["ARM_TENANT_ID"]) ELSE @]

\* Configure, the if / else-if chain on the environment.
AuthMode(e) ==
  IF e["ARM_CLIENT_SECRET"] # "" THEN "client_secret"
  ELSE IF e["ARM_CLIENT_CERTIFICATE_FILE"] # "" THEN "client_certificate"
  ELSE IF e["AZURE_FEDERATED_TOKEN_FILE"] # "" THEN "oidc"
  ELSE "none"

\* auth.Credentials as Configure initialises it.
InitialCredentials(data, e) ==
  [TenantID |-> ValueString(data.TenantID),
   ClientID |-> e["ARM_CLIENT_ID"],
   EnableAuthenticatingUsingClientSecret |-> TRUE,
   EnableAuthenticatingUsingClientCertificate |-> FALSE,
   EnableAuthenticationUsingOIDC |-> FALSE,
   ClientSecret |-> "",
   ClientCertificatePath |-> "",
   OIDCAssertionToken |-> ""]

\* An azcore.TokenCredential built by azidentity.
TokenCredential(kind, tenantID, clientID) ==
  Ptr([Kind |-> kind, TenantID |-> tenantID, ClientID |-> clientID])

\* Configure, the branch taken for the authentication mode: the credentials
\* and the token credential at its end, err when it returned with an error.
\* credErr is the error of the azidentity constructor.
SelectCredentials(data, e, credErr) ==
  LET c == InitialCredentials(data, e)
      tenant == ValueString(data.TenantID)
      certFile == e["ARM_CLIENT_CERTIFICATE_FILE"]
      tokenFile == e["AZURE_FEDERATED_TOKEN_FILE"]
  IN CASE AuthMode(e) = "client_secret" ->
            [err |-> credErr,
             credentials |-> [c EXCEPT !.EnableAuthenticatingUsingClientSecret = TRUE,
                                       !.ClientSecret = e["ARM_CLIENT_SECRET"]],
             IdentityCreds |-> IF credErr THEN Nil
                               ELSE TokenCredential("ClientSecretCredential", tenant,
                                                    e["ARM_CLIENT_ID"])]
       [] AuthMode(e) = "client_certificate" ->
            LET failed == \/ certFile \in UnreadableFiles
                          \/ certFile \in UnparseableCertificates
                          \/ credErr
            IN [err |-> failed,
                credentials |-> [c EXCEPT !.EnableAuthenticatingUsingClientCertificate = TRUE,
                                          !.ClientCertificatePath = certFile],
                IdentityCreds |-> IF failed THEN Nil
                                  ELSE TokenCredential("ClientCertificateCredential", tenant,
                                                       e["ARM_CLIENT_ID"])]
       [] AuthMode(e) = "oidc" ->
            IF tokenFile \in UnreadableFiles
              THEN [err |-> TRUE, credentials |-> c, IdentityCreds |-> Nil]
              ELSE [err |-> credErr,
                    credentials |-> [c EXCEPT !.EnableAuthenticationUsingOIDC = TRUE,
                                              !.OIDCAssertionToken = "content of " \o tokenFile],
                    IdentityCreds |-> IF credErr THEN Nil
                                      ELSE TokenCredential("WorkloadIdentityCredential", tenant,
                                                           e["AZURE_CLIENT_ID"])]
       [] OTHER -> [err |-> FALSE, credentials |-> c, IdentityCreds |-> Nil]

\* auth.NewAuthorizerFromCredentials: it picks an enabled method that has
\* its material and fails when there is none; authErr is any other failure.
NewAuthorizerFromCredentialsFails(c, authErr) ==
  \/ authErr
  \/ ~ \/ c.EnableAuthenticatingUsingClientCertificate /\ c.ClientCertificatePath # ""
       \/ c.EnableAuthenticatingUsingClientSecret /\ c.ClientSecret # ""
       \/ c.EnableAuthenticationUsingOIDC /\ c.OIDCAssertionToken # ""

\* The errors outside Configure's own code: of req.Config.Get, of the
\* azidentity constructor, of either NewAuthorizerFromCredentials.
ConfigureFaults == [configErr : BOOLEAN, credErr : BOOLEAN, authErr : BOOLEAN]

\* Configure publishing the provider context whatever went wrong.
ConfigurePublishesOnError(configured, e, fault) ==
  LET data == AzurexProviderData(configured, e)
      sel == SelectCredentials(data, e, fault.credErr)
  IN [diag |-> \/ fault.configErr
               \/ sel.err
               \/ NewAuthorizerFromCredentialsFails(sel.credentials, fault.authErr),
      credentials |-> Ptr(sel.credentials),
      providerContext |->
        Ptr([SubscriptionID |-> ValueString(data.SubscriptionID),
             IdentityCreds |-> sel.IdentityCreds,
             Management |-> "ResourceManager",
             Graph |-> "MicrosoftGraph"])]

\* AzurexProvider.Configure: its error diagnostic, the credentials it built
\* (Nil when it returned before) and the provider context it published as
\* resp.ResourceData (Nil when it returned before).
Configure(configured, e, fault) ==
  IF fault.configErr
    THEN [diag |-> TRUE, credentials |-> Nil, providerContext |-> Nil]
    ELSE
      LET data == AzurexProviderData(configured, e)
          sel == SelectCredentials(data, e, fault.credErr)
      IN IF sel.err \/ NewAuthorizerFromCredentialsFails(sel.credentials, fault.authErr)
           THEN [diag |-> TRUE, credentials |-> Ptr(sel.credentials), providerContext |-> Nil]
           ELSE [diag |-> FALSE,
                 credentials |-> Ptr(sel.credentials),
                 providerContext |->
                   Ptr([SubscriptionID |-> ValueString(data.SubscriptionID),
                        IdentityCreds |-> sel.IdentityCreds,
                        Management |-> "ResourceManager",
                        Graph |-> "MicrosoftGraph"])]

\* The environment and the provider block of the configured provider the
\* resource handlers run under: client-secret authentication from the
\* environment, subscription_id from the provider block.
ConfiguredEnv ==
  [n \in EnvNames |->
     CASE n = "ARM_TENANT_ID" -> "tenant2"
       [] n = "ARM_CLIENT_ID" -> "app2"
       [] n = "ARM_CLIENT_SECRET" -> "secret2"
       [] OTHER -> ""]

ConfiguredProviderModel ==
  [SubscriptionID |-> Ptr(ProviderSubscriptionID), TenantID |-> Nil,
   ClientID |-> Nil, ClientSecret |-> Nil]

NoFault == [configErr |-> FALSE, credErr |-> FALSE, authErr |-> FALSE]

\* ------------------------------------------------------------------ state
VARIABLES
  env,              \* the process environment
  config,           \* the provider block as decoded into AzurexProviderModel
  providerConfigured, \* AzurexProvider.Configure has returned
  providerDiag,     \* resp.Diagnostics.HasError() of AzurexProvider.Configure
  credentials,      \* the auth.Credentials Configure built (Nil: none)
  providerContext,  \* resp.ResourceData, the AzurexContext (Nil: not published)
  rSubscriptionID,  \* r.SubscriptionID of each resource instance
  azTags,           \* Azure: scope -> stored tags
  azInherit,        \* Azure: settings URL -> stored tag-inheritance setting
  state,            \* Terraform state of each instance (Nil: none)
  pc,               \* where each instance's handler stands; "done": about to return
  op,               \* the handler each instance runs
  diag,             \* resp.Diagnostics.HasError() of that handler
  data,             \* the handler's local data
  oldData,          \* req.State of that handler (Nil for Create / ImportState)
  plan,             \* req.Plan of that handler (Nil when it has none)
  calls,            \* the Azure calls that handler issued, in order
  tagInheritance,   \* the last settings response that handler received
  createdTags,      \* plan tags of the instance's last handler other than Read,
                    \* when that was a Create that succeeded
  createdInherit,   \* prefer_containers the instance's Create wrote to state, when
                    \* that Create enabled inheritance and succeeded and nobody
                    \* else has written the setting since, and the instance has
                    \* run no handler but Read since
  disabledInherit,  \* the instance's last handler other than Read was an Update
                    \* from inherit_tags = true to false that succeeded, and
                    \* nobody else has written the setting since
  untouched,        \* the instance made the last write to its subscription's tags
  emptyApplies,     \* consecutive empty-mapping writes to the provider's scope
  importID          \* identifier of the instance's last ImportState

providerVars ==
  <<env, config, providerConfigured, providerDiag, credentials, providerContext>>

vars ==
  <<providerVars, rSubscriptionID, azTags, azInherit, state, pc, op, diag, data, oldData, plan,
    calls, tagInheritance, createdTags, createdInherit, disabledInherit, untouched, emptyApplies,
    importID>>

Min(a, b) == IF a < b THEN a ELSE b

\* No handler is running and none has run.
InitLocals ==
  /\ pc = [r \in Resources |-> "idle"]
  /\ op = [r \in Resources |-> "none"]
  /\ diag = [r \in Resources |-> FALSE]
  /\ data = [r \in Resources |-> Nil]
  /\ oldData = [r \in Resources |-> Nil]
  /\ plan = [r \in Resources |-> Nil]
  /\ calls = [r \in Resources |-> <<>>]
  /\ tagInheritance = [r \in Resources |-> Nil]
  /\ createdTags = [r \in Resources |-> Nil]
  /\ createdInherit = [r \in Resources |-> Nil]
  /\ disabledInherit = [r \in Resources |-> FALSE]
  /\ untouched = [r \in Resources |-> FALSE]
  /\ emptyApplies = 0
  /\ importID = [r \in Resources |-> Nil]

\* Everything but the provider and the resources' configuration, as it is
\* before any handler ran: a subscription without tags and without setting,
\* and no Terraform state.
InitHandlers ==
  /\ azTags = [sc \in TagScopes |-> EmptyTags]
  /\ azInherit = [u \in SettingsUrls |-> ZeroTagInheritanceResponse]
  /\ state = [r \in Resources |-> Nil]
  /\ InitLocals

\* The provider has been configured and every resource instance with it.
InitConfigured ==
  /\ env = ConfiguredEnv
  /\ config = ConfiguredProviderModel
  /\ providerConfigured = TRUE
  /\ LET configured == Configure(ConfiguredProviderModel, ConfiguredEnv, NoFault) IN
       /\ providerDiag = configured.diag
       /\ credentials = configured.credentials
       /\ providerContext = configured.providerContext
       /\ rSubscriptionID = [r \in Resources |-> configured.providerContext[1].SubscriptionID]

Init == InitConfigured /\ InitHandlers

\* ------------------------------------------------------------ Azure calls
\* An Azure call as the handler issued it: body is Nil for a GET, the tags of
\* a tags write, the request body of a settings PUT.
Call(api, target, body, ok) == [api |-> api, target |-> target, body |-> body, ok |-> ok]

\* applyTags taking the subscription from the identifier of the instance's
\* last ImportState when there is one.
applyTagsAtImportedScope(r, subscriptionID, tagMap, err) ==
  LET scope == Scope(IF importID[r] = Nil THEN subscriptionID ELSE importID[r][1]) IN
  /\ azTags' = IF err THEN azTags
               ELSE CreateOrUpdateAtScope(azTags, scope, AzureTags(tagMap))
  /\ calls' = [calls EXCEPT ![r] = <<Call("CreateOrUpdateAtScope", scope, Ptr(AzureTags(tagMap)), ~err)>>]
  /\ untouched' = IF err THEN untouched ELSE [x \in Resources |-> x = r]

\* applyTags adding its tags to the ones the scope holds (a merge) instead of
\* replacing them.
applyTagsMerges(r, subscriptionID, tagMap, err) ==
  LET scope == Scope(subscriptionID)
      merged == [k \in DOMAIN azTags[scope] \cup DOMAIN tagMap |->
                   IF k \in DOMAIN tagMap THEN AzureTags(tagMap)[k] ELSE azTags[scope][k]] IN
  /\ azTags' = IF err THEN azTags ELSE [azTags EXCEPT ![scope] = merged]
  /\ calls' = [calls EXCEPT ![r] = <<Call("CreateOrUpdateAtScope", scope, Ptr(AzureTags(tagMap)), ~err)>>]
  /\ untouched' = IF err THEN untouched ELSE [x \in Resources |-> x = r]

\* applyTags(ctx, subscriptionID, tagMap) issued by instance r as the first
\* call of its handler; err is the outcome of CreateOrUpdateAtScope.
applyTags(r, subscriptionID, tagMap, err) ==
  LET scope == Scope(subscriptionID) IN
  /\ azTags' = IF err THEN azTags
               ELSE CreateOrUpdateAtScope(azTags, scope, AzureTags(tagMap))
  /\ calls' = [calls EXCEPT ![r] = <<Call("CreateOrUpdateAtScope", scope, Ptr(AzureTags(tagMap)), ~err)>>]
  /\ untouched' = IF err THEN untouched ELSE [x \in Resources |-> x = r]

\* Bookkeeping of a tags write: clears says that the handler meant to apply the
\* empty mapping (a plan without tags, or Delete's tag removal).
CountEmptyApply(err, clears) ==
  emptyApplies' =
    IF err THEN emptyApplies
    ELSE IF clears THEN Min(emptyApplies + 1, MaxEmptyApplies)
    ELSE 0

\* EnableTagInheritance / DisableTagInheritance issued by instance r.
putTagInheritance(r, api, request, out) ==
  /\ azInherit' = [azInherit EXCEPT ![request.Url] = out.after]
  /\ calls' = [calls EXCEPT ![r] = Append(@, Call(api, request.Url, Ptr(request.Body), ~out.err))]
  /\ tagInheritance' = [tagInheritance EXCEPT ![r] = IF out.err THEN Nil ELSE Ptr(out.resp)]

\* Bookkeeping of a settings PUT of instance r: for every other instance
\* somebody else has written the setting.
SettingWrittenBy(r, own, disabled) ==
  /\ createdInherit' = [x \in Resources |-> IF x = r THEN own ELSE Nil]
  /\ disabledInherit' = [x \in Resources |-> x = r /\ disabled]

\* GetTagInheritance sending its request as a PUT without a body, which
\* resets the setting.
getTagInheritanceResets(r, out) ==
  /\ azInherit' = [azInherit EXCEPT ![getTagInheritanceRequest.Url] = ZeroTagInheritanceResponse]
  /\ calls' = [calls EXCEPT ![r] =
                 Append(@, Call("GetTagInheritance", getTagInheritanceRequest.Url, Nil, ~out.err))]
  /\ tagInheritance' = [tagInheritance EXCEPT ![r] = IF out.err THEN Nil ELSE Ptr(out.resp)]

\* GetTagInheritance issued by instance r: a GET, which leaves every setting
\* as it is.
getTagInheritance(r, out) ==
  /\ azInherit' = azInherit
  /\ calls' = [calls EXCEPT ![r] =
                 Append(@, Call("GetTagInheritance", getTagInheritanceRequest.Url, Nil, ~out.err))]
  /\ tagInheritance' = [tagInheritance EXCEPT ![r] = IF out.err THEN Nil ELSE Ptr(out.resp)]

\* A handler whose last step writes the state also when its call failed.
FinishWritesStateOnError(r, err, model) ==
  /\ data' = [data EXCEPT ![r] = Ptr(model)]
  /\ state' = [state EXCEPT ![r] = Ptr(model)]
  /\ diag' = [diag EXCEPT ![r] = err]
  /\ pc' = [pc EXCEPT ![r] = "done"]

\* A handler that issues its settings call again when the call failed.
FinishRetriesOnError(r, err, model) ==
  /\ data' = [data EXCEPT ![r] = IF err THEN @ ELSE Ptr(model)]
  /\ state' = [state EXCEPT ![r] = IF err THEN @ ELSE Ptr(model)]
  /\ diag' = [diag EXCEPT ![r] = err]
  /\ pc' = [pc EXCEPT ![r] = IF err THEN @ ELSE "done"]

\* The handlers keeping data in a variable that all instances share.
FinishSharedData(r, err, model) ==
  /\ data' = [x \in Resources |-> IF err THEN data[r] ELSE Ptr(model)]
  /\ state' = [state EXCEPT ![r] = IF err THEN @ ELSE Ptr(model)]
  /\ diag' = [diag EXCEPT ![r] = err]
  /\ pc' = [pc EXCEPT ![r] = "done"]

\* The last step of a handler that ends in resp.State.Set(ctx, &data), or in
\* an error diagnostic that leaves the state as it was.
Finish(r, err, model) ==
  /\ data' = [data EXCEPT ![r] = IF err THEN @ ELSE Ptr(model)]
  /\ state' = [state EXCEPT ![r] = IF err THEN @ ELSE Ptr(model)]
  /\ diag' = [diag EXCEPT ![r] = err]
  /\ pc' = [pc EXCEPT ![r] = "done"]

\* ----------------------------------------------------------------- Create
\* Create up to and including applyTags, and the State.Set that follows
\* when inherit_tags is false.
CreateApplyTags(r, planned, err) ==
  /\ pc[r] = "idle" /\ state[r] = Nil
  /\ applyTags(r, rSubscriptionID[r], planned.Tags, err)
  /\ CountEmptyApply(err, planned.Tags = EmptyTags)
  /\ LET next == CreateAfterApplyTags(planned, err) IN
       /\ pc' = [pc EXCEPT ![r] = IF next = "enable" THEN "create_enable" ELSE "done"]
       /\ diag' = [diag EXCEPT ![r] = (next = "abort")]
       /\ state' = [state EXCEPT ![r] = IF next = "set" THEN Ptr(planned) ELSE Nil]
       /\ createdTags' = [createdTags EXCEPT ![r] = IF next = "set" THEN Ptr(planned.Tags) ELSE Nil]
       /\ createdInherit' = [createdInherit EXCEPT ![r] = Nil]
       /\ disabledInherit' = [disabledInherit EXCEPT ![r] = FALSE]
  /\ op' = [op EXCEPT ![r] = "Create"]
  /\ data' = [data EXCEPT ![r] = Ptr(planned)]
  /\ oldData' = [oldData EXCEPT ![r] = Nil]
  /\ plan' = [plan EXCEPT ![r] = Ptr(planned)]
  /\ tagInheritance' = [tagInheritance EXCEPT ![r] = Nil]
  /\ importID' = [importID EXCEPT ![r] = Nil]
  /\ UNCHANGED <<providerVars, rSubscriptionID, azInherit>>

\* Create from EnableTagInheritance to State.Set.
CreateEnableTagInheritance(r) ==
  /\ pc[r] = "create_enable"
  /\ \E out \in PutTagInheritanceOutcomes(
                  azInherit[TagInheritanceUrlPath],
                  EnableTagInheritanceRequest(data[r][1].PreferContainers)) :
       /\ putTagInheritance(r, "EnableTagInheritance",
                            EnableTagInheritanceRequest(data[r][1].PreferContainers), out)
       /\ Finish(r, out.err, ModelAfterEnable(data[r][1], out.resp))
       /\ createdTags' = [createdTags EXCEPT ![r] = IF out.err THEN Nil ELSE Ptr(plan[r][1].Tags)]
       /\ SettingWrittenBy(r, IF out.err THEN Nil
                               ELSE Ptr(ModelAfterEnable(data[r][1], out.resp).PreferContainers),
                          FALSE)
  /\ UNCHANGED <<providerVars, rSubscriptionID, azTags, op, oldData, plan, untouched, emptyApplies,
                 importID>>

\* ------------------------------------------------------------------- Read
\* Read up to and including GetAtScope and the conversion of its tags.
ReadGetAtScope(r, err, tagsResponse) ==
  /\ pc[r] = "idle" /\ state[r] # Nil
  /\ calls' = [calls EXCEPT ![r] = <<Call("GetAtScope", Scope(rSubscriptionID[r]), Nil, ~err)>>]
  /\ data' = [data EXCEPT ![r] =
                IF err THEN state[r]
                ELSE Ptr([state[r][1] EXCEPT !.Tags = TfTags(tagsResponse)])]
  /\ pc' = [pc EXCEPT ![r] = IF err THEN "done" ELSE "read_inherit"]
  /\ diag' = [diag EXCEPT ![r] = err]
  /\ op' = [op EXCEPT ![r] = "Read"]
  /\ oldData' = [oldData EXCEPT ![r] = state[r]]
  /\ plan' = [plan EXCEPT ![r] = Nil]
  /\ tagInheritance' = [tagInheritance EXCEPT ![r] = Nil]
  /\ UNCHANGED <<providerVars, rSubscriptionID, azTags, azInherit, state, createdTags, createdInherit, disabledInherit, untouched,
                 emptyApplies, importID>>

\* Read from GetTagInheritance to State.Set.
ReadGetTagInheritance(r) ==
  /\ pc[r] = "read_inherit"
  /\ \E out \in GetTagInheritanceOutcomes(azInherit[TagInheritanceUrlPath]) :
       /\ getTagInheritance(r, out)
       /\ Finish(r, out.err, ModelAfterGetTagInheritance(data[r][1], out.resp))
  /\ UNCHANGED <<providerVars, rSubscriptionID, azTags, op, oldData, plan, createdTags, createdInherit, disabledInherit,
                 untouched, emptyApplies, importID>>

\* ----------------------------------------------------------------- Update
\* Update up to and including applyTags, and the State.Set that follows
\* when no inheritance call is due.
UpdateApplyTags(r, planned, err) ==
  /\ pc[r] = "idle" /\ state[r] # Nil
  /\ applyTags(r, rSubscriptionID[r], planned.Tags, err)
  /\ CountEmptyApply(err, planned.Tags = EmptyTags)
  /\ LET next == UpdateAfterApplyTags(state[r][1], planned, err) IN
       /\ pc' = [pc EXCEPT ![r] =
                   CASE next = "enable" -> "update_enable"
                     [] next = "disable" -> "update_disable"
                     [] OTHER -> "done"]
       /\ diag' = [diag EXCEPT ![r] = (next = "abort")]
       /\ state' = [state EXCEPT ![r] = IF next = "set" THEN Ptr(planned) ELSE @]
  /\ op' = [op EXCEPT ![r] = "Update"]
  /\ data' = [data EXCEPT ![r] = Ptr(planned)]
  /\ oldData' = [oldData EXCEPT ![r] = state[r]]
  /\ plan' = [plan EXCEPT ![r] = Ptr(planned)]
  /\ createdTags' = [createdTags EXCEPT ![r] = Nil]
  /\ createdInherit' = [createdInherit EXCEPT ![r] = Nil]
  /\ disabledInherit' = [disabledInherit EXCEPT ![r] = FALSE]
  /\ tagInheritance' = [tagInheritance EXCEPT ![r] = Nil]
  /\ importID' = [importID EXCEPT ![r] = Nil]
  /\ UNCHANGED <<providerVars, rSubscriptionID, azInherit>>

\* Update from EnableTagInheritance to State.Set.
UpdateEnableTagInheritance(r) ==
  /\ pc[r] = "update_enable"
  /\ \E out \in PutTagInheritanceOutcomes(
                  azInherit[TagInheritanceUrlPath],
                  EnableTagInheritanceRequest(data[r][1].PreferContainers)) :
       /\ putTagInheritance(r, "EnableTagInheritance",
                            EnableTagInheritanceRequest(data[r][1].PreferContainers), out)
       /\ Finish(r, out.err, ModelAfterEnable(data[r][1], out.resp))
  /\ SettingWrittenBy(r, createdInherit[r], FALSE)
  /\ UNCHANGED <<providerVars, rSubscriptionID, azTags, op, oldData, plan, createdTags, untouched,
                 emptyApplies, importID>>

\* Update from DisableTagInheritance to State.Set.
UpdateDisableTagInheritance(r) ==
  /\ pc[r] = "update_disable"
  /\ \E out \in PutTagInheritanceOutcomes(azInherit[TagInheritanceUrlPath],
                                          DisableTagInheritanceRequest) :
       /\ putTagInheritance(r, "DisableTagInheritance", DisableTagInheritanceRequest, out)
       /\ Finish(r, out.err, ModelAfterDisable(data[r][1]))
       /\ SettingWrittenBy(r, createdInherit[r], ~out.err)
  /\ UNCHANGED <<providerVars, rSubscriptionID, azTags, op, oldData, plan, createdTags, untouched,
                 emptyApplies, importID>>

\* ----------------------------------------------------------------- Delete
\* What every first step of Delete does besides its Azure call.  A Delete
\* that ends without an error diagnostic has its state removed.
DeleteBegin(r, next) ==
  /\ pc' = [pc EXCEPT ![r] = IF next = "disable" THEN "delete_disable" ELSE "done"]
  /\ diag' = [diag EXCEPT ![r] = (next = "abort")]
  /\ state' = [state EXCEPT ![r] = IF next = "done" THEN Nil ELSE @]
  /\ op' = [op EXCEPT ![r] = "Delete"]
  /\ data' = [data EXCEPT ![r] = state[r]]
  /\ oldData' = [oldData EXCEPT ![r] = state[r]]
  /\ plan' = [plan EXCEPT ![r] = Nil]
  /\ createdTags' = [createdTags EXCEPT ![r] = Nil]
  /\ createdInherit' = [createdInherit EXCEPT ![r] = Nil]
  /\ disabledInherit' = [disabledInherit EXCEPT ![r] = FALSE]
  /\ tagInheritance' = [tagInheritance EXCEPT ![r] = Nil]
  /\ importID' = [importID EXCEPT ![r] = Nil]

\* Delete with ondelete_remove_tags: up to and including applyTags.
DeleteApplyTags(r, err) ==
  /\ pc[r] = "idle" /\ state[r] # Nil
  /\ DeleteRemovesTags(state[r][1])
  /\ applyTags(r, rSubscriptionID[r], DeleteTagMap(state[r][1]), err)
  /\ CountEmptyApply(err, TRUE)
  /\ DeleteBegin(r, DeleteAfterRemoveTags(state[r][1], err))
  /\ UNCHANGED <<providerVars, rSubscriptionID, azInherit>>

\* Delete without ondelete_remove_tags: up to the inheritance decision.
DeleteKeepTags(r) ==
  /\ pc[r] = "idle" /\ state[r] # Nil
  /\ ~DeleteRemovesTags(state[r][1])
  /\ calls' = [calls EXCEPT ![r] = <<>>]
  /\ DeleteBegin(r, DeleteAfterRemoveTags(state[r][1], FALSE))
  /\ UNCHANGED <<providerVars, rSubscriptionID, azTags, azInherit, untouched, emptyApplies>>

\* Delete: the DisableTagInheritance call and the return.
DeleteDisableTagInheritance(r) ==
  /\ pc[r] = "delete_disable"
  /\ \E out \in PutTagInheritanceOutcomes(azInherit[TagInheritanceUrlPath],
                                          DisableTagInheritanceRequest) :
       /\ putTagInheritance(r, "DisableTagInheritance", DisableTagInheritanceRequest, out)
       /\ state' = [state EXCEPT ![r] = IF out.err THEN @ ELSE Nil]
       /\ diag' = [diag EXCEPT ![r] = out.err]
  /\ pc' = [pc EXCEPT ![r] = "done"]
  /\ SettingWrittenBy(r, createdInherit[r], FALSE)
  /\ UNCHANGED <<providerVars, rSubscriptionID, azTags, op, data, oldData, plan, createdTags, untouched,
                 emptyApplies, importID>>

\* ------------------------------------------------------------ ImportState
\* ImportStatePassthroughID(ctx, path.Root("subscription_id"), req, resp)
ImportState(r, id) ==
  /\ pc[r] = "idle" /\ state[r] = Nil
  /\ state' = [state EXCEPT ![r] = IF ImportStateAccepted THEN Ptr(ImportedModel) ELSE Nil]
  /\ diag' = [diag EXCEPT ![r] = ~ImportStateAccepted]
  /\ pc' = [pc EXCEPT ![r] = "done"]
  /\ op' = [op EXCEPT ![r] = "Import"]
  /\ importID' = [importID EXCEPT ![r] = Ptr(id)]
  /\ calls' = [calls EXCEPT ![r] = <<>>]
  /\ data' = [data EXCEPT ![r] = Nil]
  /\ oldData' = [oldData EXCEPT ![r] = Nil]
  /\ plan' = [plan EXCEPT ![r] = Nil]
  /\ createdTags' = [createdTags EXCEPT ![r] = Nil]
  /\ createdInherit' = [createdInherit EXCEPT ![r] = Nil]
  /\ disabledInherit' = [disabledInherit EXCEPT ![r] = FALSE]
  /\ tagInheritance' = [tagInheritance EXCEPT ![r] = Nil]
  /\ UNCHANGED <<providerVars, rSubscriptionID, azTags, azInherit, untouched, emptyApplies>>

\* -------------------------------------------------------------- Configure
\* AzurexProvider.Configure, once per provider.
ProviderConfigure(fault) ==
  /\ ~providerConfigured
  /\ providerConfigured' = TRUE
  /\ LET configured == Configure(config, env, fault) IN
       /\ providerDiag' = configured.diag
       /\ credentials' = configured.credentials
       /\ providerContext' = configured.providerContext
  /\ UNCHANGED <<env, config, rSubscriptionID, azTags, azInherit, state, pc, op, diag, data,
                 oldData, plan, calls, tagInheritance, createdTags, createdInherit, disabledInherit, untouched, emptyApplies,
                 importID>>

\* SubscriptionTagsResource.Configure: nothing without provider data; else
\* the three clients (err: one of their constructors failed) and then
\* r.SubscriptionID.
ResourceConfigure(r, err) ==
  /\ pc[r] = "idle"
  /\ providerContext = Nil => ~err
  /\ rSubscriptionID' =
       [rSubscriptionID EXCEPT ![r] =
          IF providerContext = Nil \/ err THEN @ ELSE providerContext[1].SubscriptionID]
  /\ diag' = [diag EXCEPT ![r] = err]
  /\ pc' = [pc EXCEPT ![r] = "done"]
  /\ op' = [op EXCEPT ![r] = "Configure"]
  /\ UNCHANGED <<providerVars, azTags, azInherit, state, data, oldData, plan, calls,
                 tagInheritance, createdTags, createdInherit, disabledInherit, untouched, emptyApplies, importID>>

\* ----------------------------------------------------------------- return
\* The handler returns to the framework: its locals and its request are gone.
Return(r) ==
  /\ pc[r] = "done"
  /\ pc' = [pc EXCEPT ![r] = "idle"]
  /\ op' = [op EXCEPT ![r] = "none"]
  /\ diag' = [diag EXCEPT ![r] = FALSE]
  /\ data' = [data EXCEPT ![r] = Nil]
  /\ oldData' = [oldData EXCEPT ![r] = Nil]
  /\ plan' = [plan EXCEPT ![r] = Nil]
  /\ calls' = [calls EXCEPT ![r] = <<>>]
  /\ tagInheritance' = [tagInheritance EXCEPT ![r] = Nil]
  /\ UNCHANGED <<providerVars, rSubscriptionID, azTags, azInherit, state, createdTags, createdInherit, disabledInherit, untouched,
                 emptyApplies, importID>>

\* ---------------------------------------------------------- other writers
\* Somebody else replaces the tags of a subscription.
ExternalSetTags(scope, tags) ==
  /\ azTags[scope] # tags
  /\ azTags' = [azTags EXCEPT ![scope] = tags]
  /\ untouched' = [r \in Resources |-> untouched[r] /\ Scope(rSubscriptionID[r]) # scope]
  /\ emptyApplies' = 0
  /\ UNCHANGED <<providerVars, rSubscriptionID, azInherit, state, pc, op, diag, data, oldData, plan,
                 calls, tagInheritance, createdTags, createdInherit, disabledInherit, importID>>

\* Somebody else sets or removes the tag-inheritance setting.
ExternalSetTagInheritance(url, setting) ==
  /\ azInherit[url] # setting
  /\ azInherit' = [azInherit EXCEPT ![url] = setting]
  /\ createdInherit' = [r \in Resources |-> Nil]
  /\ disabledInherit' = [r \in Resources |-> FALSE]
  /\ UNCHANGED <<providerVars, rSubscriptionID, azTags, state, pc, op, diag, data, oldData, plan,
                 calls, tagInheritance, createdTags, untouched, emptyApplies, importID>>

\* ---------------------------------------------------------- specification
\* One resource instance of the provider configuration, with other writers.
Instance == "r1"

Next ==
  \/ \E planned \in Models, err \in BOOLEAN : CreateApplyTags(Instance, planned, err)
  \/ CreateEnableTagInheritance(Instance)
  \/ \E err \in BOOLEAN :
       \E tagsResponse \in TagsResponses(azTags[Scope(rSubscriptionID[Instance])]) :
         ReadGetAtScope(Instance, err, tagsResponse)
  \/ ReadGetTagInheritance(Instance)
  \/ \E planned \in Models, err \in BOOLEAN : UpdateApplyTags(Instance, planned, err)
  \/ UpdateEnableTagInheritance(Instance)
  \/ UpdateDisableTagInheritance(Instance)
  \/ \E err \in BOOLEAN : DeleteApplyTags(Instance, err)
  \/ DeleteKeepTags(Instance)
  \/ DeleteDisableTagInheritance(Instance)
  \/ \E id \in SubIds : ImportState(Instance, id)
  \/ Return(Instance)
  \/ \E tags \in AzureTagMaps : ExternalSetTags(Scope(rSubscriptionID[Instance]), tags)
  \/ \E setting \in SettingsValues : ExternalSetTagInheritance(TagInheritanceUrlPath, setting)

Spec == Init /\ [][Next]_vars

\* Provider configuration from any environment and provider block, followed
\* by the configuration of a resource instance.
InitProvider ==
  /\ env \in Envs
  /\ config \in AzurexProviderModels
  /\ providerConfigured = FALSE
  /\ providerDiag = FALSE
  /\ credentials = Nil
  /\ providerContext = Nil
  /\ rSubscriptionID = [r \in Resources |-> ""]
  /\ InitHandlers

NextProvider ==
  \/ \E fault \in ConfigureFaults : ProviderConfigure(fault)
  \/ \E err \in BOOLEAN : ResourceConfigure(Instance, err)
  \/ Return(Instance)

SpecProvider == InitProvider /\ [][NextProvider]_vars

\* The plans of the concurrent runs: one with tags and everything switched
\* on, one without tags and everything switched off.
ConcurrentPlans ==
  {[Tags |-> [k \in Keys |-> "value1"], InheritTags |-> TRUE, PreferContainers |-> TRUE,
    RemoveTags |-> TRUE, RemoteInheritTags |-> TRUE],
   [Tags |-> EmptyTags, InheritTags |-> FALSE, PreferContainers |-> FALSE,
    RemoveTags |-> FALSE, RemoteInheritTags |-> FALSE]}

\* The framework runs the handlers of the resource instances concurrently:
\* the steps of one instance's handler interleave with those of another's,
\* all against the one subscription of the provider.
NextConcurrent ==
  \E r \in Resources :
    \/ \E planned \in ConcurrentPlans, err \in BOOLEAN : CreateApplyTags(r, planned, err)
    \/ CreateEnableTagInheritance(r)
    \/ \E err \in BOOLEAN :
         \E tagsResponse \in TagsResponses(azTags[Scope(rSubscriptionID[r])]) :
           ReadGetAtScope(r, err, tagsResponse)
    \/ ReadGetTagInheritance(r)
    \/ \E planned \in ConcurrentPlans, err \in BOOLEAN : UpdateApplyTags(r, planned, err)
    \/ UpdateEnableTagInheritance(r)
    \/ UpdateDisableTagInheritance(r)
    \/ \E err \in BOOLEAN : DeleteApplyTags(r, err)
    \/ DeleteKeepTags(r)
    \/ DeleteDisableTagInheritance(r)
    \/ \E id \in SubIds : ImportState(r, id)
    \/ Return(r)

SpecConcurrent == Init /\ [][NextConcurrent]_vars

\* The plans of two instances that declare different tags for the one
\* subscription: each plan has one key of its own.
RacePlans ==
  {[Tags |-> [k \in {key} |-> "value1"], InheritTags |-> inherit, PreferContainers |-> FALSE,
    RemoveTags |-> FALSE, RemoteInheritTags |-> FALSE] :
     key \in ResponseKeys, inherit \in BOOLEAN}

\* Create and Update of the resource instances running concurrently, nobody
\* else writing the subscription.
NextRace ==
  \E r \in Resources :
    \/ \E planned \in RacePlans, err \in BOOLEAN : CreateApplyTags(r, planned, err)
    \/ CreateEnableTagInheritance(r)
    \/ \E planned \in RacePlans, err \in BOOLEAN : UpdateApplyTags(r, planned, err)
    \/ UpdateEnableTagInheritance(r)
    \/ UpdateDisableTagInheritance(r)
    \/ Return(r)

SpecRace == Init /\ [][NextRace]_vars

\* Read of a resource that is in the state, on a subscription that holds
\* any tags and any setting.
InitRead ==
  /\ InitConfigured
  /\ InitLocals
  /\ \E stored \in ResponseTagMaps, setting \in SettingsValues, model \in ConcurrentPlans :
       /\ azTags = [sc \in TagScopes |->
                      IF sc = Scope(ProviderSubscriptionID) THEN stored ELSE EmptyTags]
       /\ azInherit = [u \in SettingsUrls |->
                         IF u = TagInheritanceUrlPath THEN setting
                         ELSE ZeroTagInheritanceResponse]
       /\ state = [r \in Resources |-> IF r = Instance THEN Ptr(model) ELSE Nil]

NextRead ==
  \/ \E err \in BOOLEAN :
       \E tagsResponse \in TagsResponses(azTags[Scope(rSubscriptionID[Instance])]) :
         ReadGetAtScope(Instance, err, tagsResponse)
  \/ ReadGetTagInheritance(Instance)
  \/ Return(Instance)

SpecRead == InitRead /\ [][NextRead]_vars

\* ----------------------------------------------------------- properties
Done(r, o) == pc[r] = "done" /\ op[r] = o
Succeeded(r, o) == Done(r, o) /\ ~diag[r]
MyScope(r) == Scope(rSubscriptionID[r])

\* The tags Azure stores are exactly the mapping m.
SameTags(stored, m) ==
  /\ DOMAIN stored = DOMAIN m
  /\ \A k \in DOMAIN m : stored[k] = Ptr(m[k])

\* The calls of a handler's log that went to the given API.
CallsTo(cs, api) == {i \in 1..Len(cs) : cs[i].api = api}
NumCalls(cs, api) == Cardinality(CallsTo(cs, api))

TagsWriteApi == "CreateOrUpdateAtScope"
SettingsApis == {"GetTagInheritance", "EnableTagInheritance", "DisableTagInheritance"}
SettingsCalls(cs) == {i \in 1..Len(cs) : cs[i].api \in SettingsApis}

\* A step of instance r's handler o (the handler's return is not one).
HandlerStep(r, o) == pc'[r] # pc[r] /\ op'[r] = o

\* The step issued the given call as the latest call of r's handler.
Issued(r, api) ==
  /\ calls'[r] # calls[r]
  /\ Len(calls'[r]) >= 1
  /\ calls'[r][Len(calls'[r])].api = api

\* C1: when a Create with tags M succeeded and nobody else wrote the
\* subscription's tags since, every Read that succeeds before the instance's
\* next Create / Update / Delete leaves exactly M in the state's tags.
C1_RoundTrip ==
  \A r \in Resources :
    (Succeeded(r, "Read") /\ createdTags[r] # Nil /\ untouched[r])
      => state[r][1].Tags = createdTags[r][1]

C1_Witness ==
  /\ Succeeded(Instance, "Read") /\ createdTags[Instance] # Nil /\ untouched[Instance]
  /\ createdTags[Instance][1] # EmptyTags
  /\ state[Instance][1].Tags = createdTags[Instance][1]

\* C2: the tags call of a Create or Update with declared mapping M, when it
\* succeeds, leaves the subscription with exactly M (the same keys, each
\* with M's value) whatever it held before, and no later step of that
\* Create or Update changes the tags again.
C2_Overwrite ==
  [][\A r \in Resources :
       (HandlerStep(r, "Create") \/ HandlerStep(r, "Update")) =>
         /\ (Issued(r, TagsWriteApi) /\ calls'[r][1].ok)
              => SameTags(azTags'[MyScope(r)], plan'[r][1].Tags)
         /\ (pc'[r] = "done" /\ ~diag'[r])
              => (CallsTo(calls'[r], TagsWriteApi) = {1} /\ calls'[r][1].ok)
         /\ ~(Issued(r, TagsWriteApi) /\ calls'[r][1].ok) => azTags' = azTags]_vars

\* An Update that declared no tags over a state that had some.
C2_Witness ==
  /\ Succeeded(Instance, "Update") /\ untouched[Instance]
  /\ oldData[Instance][1].Tags # EmptyTags
  /\ plan[Instance][1].Tags = EmptyTags
  /\ azTags[MyScope(Instance)] = EmptyTags

\* C3: after the empty mapping has been applied (by a plan without tags or by
\* Delete's tag removal) the subscription has no tags, and it still has none
\* after the empty mapping has been applied again.
C3_EmptyApplyClears ==
  emptyApplies >= 1 => azTags[Scope(ProviderSubscriptionID)] = EmptyTags

\* The empty mapping has been applied twice in a row.
C3_Witness ==
  /\ emptyApplies >= 2
  /\ Done(Instance, "Delete")
  /\ azTags[Scope(ProviderSubscriptionID)] = EmptyTags

C5_UpdateInheritanceCalls ==
  \A r \in Resources :
    Done(r, "Update") =>
      /\ (oldData[r][1].InheritTags /\ ~plan[r][1].InheritTags)
           => /\ NumCalls(calls[r], "DisableTagInheritance") = 1
              /\ NumCalls(calls[r], "EnableTagInheritance") = 0
      /\ (~oldData[r][1].InheritTags /\ ~plan[r][1].InheritTags)
           => SettingsCalls(calls[r]) = {}

\* C5 (amended): a finished Update from inherit_tags true to false whose
\* tags call succeeded has issued exactly one DisableTagInheritance and no
\* EnableTagInheritance; one from false to false has issued no call to the
\* settings endpoint, whatever prefer_containers the plan has.
C5_UpdateInheritanceCallsAfterTags ==
  \A r \in Resources :
    Done(r, "Update") =>
      /\ (oldData[r][1].InheritTags /\ ~plan[r][1].InheritTags /\ calls[r][1].ok)
           => /\ NumCalls(calls[r], "DisableTagInheritance") = 1
              /\ NumCalls(calls[r], "EnableTagInheritance") = 0
      /\ (~oldData[r][1].InheritTags /\ ~plan[r][1].InheritTags)
           => SettingsCalls(calls[r]) = {}

C5_Witness ==
  /\ Done(Instance, "Update")
  /\ oldData[Instance][1].InheritTags /\ ~plan[Instance][1].InheritTags
  /\ calls[Instance][1].ok
  /\ NumCalls(calls[Instance], "DisableTagInheritance") = 1

\* C6: a Delete of a state with ondelete_remove_tags = false issues no tags
\* write and none of its steps changes the tags Azure stores; a Delete of a
\* state with ondelete_remove_tags = true that succeeds has issued a tags
\* write, that write left the subscription without tags, and no later step
\* of the Delete changed them.
C6_DeleteTags ==
  [][\A r \in Resources :
       HandlerStep(r, "Delete") =>
         /\ ~oldData'[r][1].RemoveTags
              => (CallsTo(calls'[r], TagsWriteApi) = {} /\ azTags' = azTags)
         /\ (oldData'[r][1].RemoveTags /\ pc'[r] = "done" /\ ~diag'[r])
              => CallsTo(calls'[r], TagsWriteApi) # {}
         /\ (Issued(r, TagsWriteApi) /\ calls'[r][1].ok)
              => azTags'[MyScope(r)] = EmptyTags
         /\ ~Issued(r, TagsWriteApi) => azTags' = azTags]_vars

\* A Delete that kept the tags, which Azure still stores.
C6_Witness ==
  /\ Succeeded(Instance, "Delete")
  /\ ~oldData[Instance][1].RemoveTags
  /\ calls[Instance] = <<>>
  /\ azTags[MyScope(Instance)] # EmptyTags

\* C7: a finished Delete has called DisableTagInheritance (once) exactly when
\* its state had ondelete_remove_inherit_tags and inherit_tags both true and
\* its tag removal, if any, did not fail; it never calls
\* EnableTagInheritance, and a step of Delete that is not that call leaves
\* every tag-inheritance setting as it was.
C7_DeleteDisable ==
  [][\A r \in Resources :
       HandlerStep(r, "Delete") =>
         /\ pc'[r] = "done" =>
              /\ (NumCalls(calls'[r], "DisableTagInheritance") = 1)
                   <=> (/\ oldData'[r][1].RemoteInheritTags
                        /\ oldData'[r][1].InheritTags
                        /\ \A i \in CallsTo(calls'[r], TagsWriteApi) : calls'[r][i].ok)
              /\ NumCalls(calls'[r], "DisableTagInheritance") <= 1
         /\ NumCalls(calls'[r], "EnableTagInheritance") = 0
         /\ ~Issued(r, "DisableTagInheritance") => azInherit' = azInherit]_vars

\* A Delete that cleared the tags and then disabled inheritance.
C7_Witness ==
  /\ Succeeded(Instance, "Delete")
  /\ oldData[Instance][1].RemoveTags
  /\ oldData[Instance][1].RemoteInheritTags /\ oldData[Instance][1].InheritTags
  /\ NumCalls(calls[Instance], "DisableTagInheritance") = 1

\* C8 as stated: ImportState with identifier X ends without error and leaves
\* a state, and a Read that follows it queries the tags and the inheritance
\* setting of subscription X.
C8_ImportUsesIdentifier ==
  \A r \in Resources :
    /\ Done(r, "Import") => (~diag[r] /\ state[r] # Nil)
    /\ (importID[r] # Nil /\ op[r] = "Read") =>
         \A i \in 1..Len(calls[r]) :
           /\ calls[r][i].api = "GetAtScope"
                => calls[r][i].target = Scope(importID[r][1])
           /\ calls[r][i].api = "GetTagInheritance"
                => calls[r][i].target = Scope(importID[r][1]) \o TagInheritanceUrlPath

\* C9: in Create, Read, Update and Delete an Azure call that returned an
\* error is the last call of the handler: the handler has ended with an
\* error diagnostic and the state is the one the handler started from.
C9_FirstErrorEnds ==
  \A r \in Resources :
    \A i \in 1..Len(calls[r]) :
      ~calls[r][i].ok =>
        /\ i = Len(calls[r])
        /\ pc[r] = "done"
        /\ diag[r]
        /\ state[r] = oldData[r]

\* An Update whose tags call succeeded and whose inheritance call failed.
C9_Witness ==
  /\ Done(Instance, "Update")
  /\ Len(calls[Instance]) = 2
  /\ calls[Instance][1].ok /\ ~calls[Instance][2].ok
  /\ diag[Instance] /\ state[Instance] = oldData[Instance]

\* C10: the calls of one handler come one after the other, tags first: a
\* call to the settings endpoint is never followed by a tags call, in
\* Create, Update and Read it is the second call, after a tags call that
\* succeeded, and in Delete it comes after a successful tag removal or, for
\* a state with ondelete_remove_tags = false, as the only call.
C10_TagsCallFirst ==
  \A r \in Resources :
    \A i \in SettingsCalls(calls[r]) :
      /\ \A j \in 1..Len(calls[r]) : j > i => calls[r][j].api \notin {TagsWriteApi, "GetAtScope"}
      /\ i <= 2
      /\ i = 2 => /\ calls[r][1].ok
                  /\ calls[r][1].api = (IF op[r] = "Read" THEN "GetAtScope" ELSE TagsWriteApi)
      /\ i = 1 => (op[r] = "Delete" /\ ~oldData[r][1].RemoveTags)

\* A Delete that cleared the tags and then called DisableTagInheritance.
C10_Witness ==
  /\ Done(Instance, "Delete")
  /\ Len(calls[Instance]) = 2
  /\ calls[Instance][1].api = TagsWriteApi /\ calls[Instance][1].ok
  /\ calls[Instance][2].api = "DisableTagInheritance"

\* C11: Read is free of side effects on Azure: every step of a Read leaves
\* the tags of every scope and every tag-inheritance setting as they were,
\* whether the Read goes on, succeeds or fails, and the calls of a Read are
\* GetAtScope first and, after it succeeded, GetTagInheritance, both without
\* a body, and nothing else.
C11_ReadSideEffectFree ==
  [][\A r \in Resources :
       HandlerStep(r, "Read") =>
         /\ azTags' = azTags
         /\ azInherit' = azInherit
         /\ Len(calls'[r]) \in {1, 2}
         /\ calls'[r][1].api = "GetAtScope"
         /\ Len(calls'[r]) = 2 =>
              (calls'[r][1].ok /\ calls'[r][2].api = "GetTagInheritance")
         /\ \A i \in 1..Len(calls'[r]) : calls'[r][i].body = Nil
         /\ (pc'[r] = "done" /\ ~diag'[r]) => Len(calls'[r]) = 2]_vars

\* A Read that succeeded on a subscription that has tags and a setting.
C11_Witness ==
  /\ Succeeded(Instance, "Read")
  /\ Len(calls[Instance]) = 2
  /\ azTags[MyScope(Instance)] # EmptyTags
  /\ azInherit[TagInheritanceUrlPath].Id # ""

\* C12: a Read that succeeded on a settings response with a non-empty
\* identifier has written inherit_tags = true and the response's
\* preferContainerTags to state; on a response with an empty identifier it
\* has written inherit_tags = false and the prefer_containers the state had
\* before the Read.
C12_ReadInheritance ==
  \A r \in Resources :
    Succeeded(r, "Read") =>
      /\ tagInheritance[r] # Nil
      /\ tagInheritance[r][1].Id # "" =>
           /\ state[r][1].InheritTags
           /\ state[r][1].PreferContainers = tagInheritance[r][1].PreferContainerTags
      /\ tagInheritance[r][1].Id = "" =>
           /\ ~state[r][1].InheritTags
           /\ state[r][1].PreferContainers = oldData[r][1].PreferContainers

\* A Read that found no setting for a state that had inherit_tags and
\* prefer_containers both true.
C12_Witness ==
  /\ Succeeded(Instance, "Read")
  /\ tagInheritance[Instance][1].Id = ""
  /\ oldData[Instance][1].InheritTags /\ oldData[Instance][1].PreferContainers
  /\ ~state[Instance][1].InheritTags /\ state[Instance][1].PreferContainers

\* What a settings PUT of instance r did in this step, as one of the
\* outcomes Azure has for the given request.
PutObserved(r, request) ==
  \E out \in PutTagInheritanceOutcomes(azInherit[request.Url], request) :
    /\ azInherit' = [azInherit EXCEPT ![request.Url] = out.after]
    /\ tagInheritance'[r] = (IF out.err THEN Nil ELSE Ptr(out.resp))
    /\ calls'[r][Len(calls'[r])].ok = ~out.err

\* C13: DisableTagInheritance() is EnableTagInheritance(false): the two
\* build the same request (method, URL, api-version, body with
\* preferContainerTags = false) and so have the same outcomes from the
\* setting Azure holds; every DisableTagInheritance call a handler issues
\* sends that request and ends as an EnableTagInheritance(false) can, and
\* every EnableTagInheritance call with prefer_containers = false ends as a
\* DisableTagInheritance can.
C13_DisableIsEnableFalse ==
  [][/\ DisableTagInheritanceRequest = EnableTagInheritanceRequest(FALSE)
     /\ \A u \in SettingsUrls :
          PutTagInheritanceOutcomes(azInherit[u], DisableTagInheritanceRequest)
            = PutTagInheritanceOutcomes(azInherit[u], EnableTagInheritanceRequest(FALSE))
     /\ \A r \in Resources :
          /\ Issued(r, "DisableTagInheritance") =>
               /\ calls'[r][Len(calls'[r])].target = EnableTagInheritanceRequest(FALSE).Url
               /\ calls'[r][Len(calls'[r])].body = Ptr(EnableTagInheritanceRequest(FALSE).Body)
               /\ PutObserved(r, EnableTagInheritanceRequest(FALSE))
          /\ (/\ Issued(r, "EnableTagInheritance")
              /\ calls'[r][Len(calls'[r])].body = Ptr(TagInheritanceRequest(FALSE))) =>
               /\ calls'[r][Len(calls'[r])].target = DisableTagInheritanceRequest.Url
               /\ PutObserved(r, DisableTagInheritanceRequest)]_vars

\* A DisableTagInheritance of an Update that Azure stored and answered with
\* the setting, preferContainerTags = false.
C13_Witness ==
  /\ Succeeded(Instance, "Update")
  /\ Len(calls[Instance]) = 2
  /\ calls[Instance][2].api = "DisableTagInheritance"
  /\ calls[Instance][2].body = Ptr(TagInheritanceRequest(FALSE))
  /\ tagInheritance[Instance] = Ptr([Id |-> TagInheritanceUrlPath, PreferContainerTags |-> FALSE])
  /\ azInherit[TagInheritanceUrlPath] = tagInheritance[Instance][1]

\* The authentication modes in their order of priority, the variable that
\* selects each, and the modes a credentials value has enabled.
AuthModes == <<"client_secret", "client_certificate", "oidc">>

ModeVariable(mode) ==
  CASE mode = "client_secret" -> "ARM_CLIENT_SECRET"
    [] mode = "client_certificate" -> "ARM_CLIENT_CERTIFICATE_FILE"
    [] mode = "oidc" -> "AZURE_FEDERATED_TOKEN_FILE"

EnabledModes(c) ==
  {mode \in {AuthModes[i] : i \in DOMAIN AuthModes} :
     CASE mode = "client_secret" -> c.EnableAuthenticatingUsingClientSecret
       [] mode = "client_certificate" -> c.EnableAuthenticatingUsingClientCertificate
       [] mode = "oidc" -> c.EnableAuthenticationUsingOIDC}

\* C14 as stated: the credentials of a Configure that ended without error
\* have exactly one authentication mode enabled, the first in the order
\* client-secret, client-certificate, OIDC whose variable is set.
C14_ExactlyOneMode ==
  (providerConfigured /\ ~providerDiag) =>
    \E i \in DOMAIN AuthModes :
      /\ EnabledModes(credentials[1]) = {AuthModes[i]}
      /\ env[ModeVariable(AuthModes[i])] # ""
      /\ \A j \in DOMAIN AuthModes : j < i => env[ModeVariable(AuthModes[j])] = ""

\* The file or secret the selected authentication mode needs is missing or
\* cannot be used.
CredentialMaterialMissing ==
  \/ AuthMode(env) = "none"
  \/ /\ AuthMode(env) = "client_certificate"
     /\ env["ARM_CLIENT_CERTIFICATE_FILE"] \in UnreadableFiles \cup UnparseableCertificates
  \/ /\ AuthMode(env) = "oidc"
     /\ env["AZURE_FEDERATED_TOKEN_FILE"] \in UnreadableFiles

\* C15: once Configure has returned, it has either recorded an error and
\* published no provider context, or published a provider context whose
\* token credential is not nil; with no credential variable set, an
\* unreadable or unparseable certificate file or an unreadable
\* federated-token file it has recorded an error.
C15_CredentialOrError ==
  providerConfigured =>
    /\ providerDiag <=> providerContext = Nil
    /\ ~providerDiag => providerContext[1].IdentityCreds # Nil
    /\ CredentialMaterialMissing => providerDiag

\* Configure with a certificate file that cannot be read.
C15_Witness ==
  /\ providerConfigured
  /\ AuthMode(env) = "client_certificate"
  /\ env["ARM_CLIENT_CERTIFICATE_FILE"] \in UnreadableFiles
  /\ providerDiag /\ providerContext = Nil

\* The value an attribute has by the rule "environment variable when set
\* and not empty, else the configured value".
Overridden(variable, configured) ==
  IF env[variable] # "" THEN env[variable] ELSE ValueString(configured)

\* C16 as stated: the subscription, tenant, client id and client secret
\* that Configure uses are each the environment variable when it is set and
\* not empty and the configured attribute otherwise.
C16_EnvironmentOverrides ==
  (providerConfigured /\ credentials # Nil) =>
    /\ credentials[1].TenantID = Overridden("ARM_TENANT_ID", config.TenantID)
    /\ credentials[1].ClientID = Overridden("ARM_CLIENT_ID", config.ClientID)
    /\ Overridden("ARM_CLIENT_SECRET", config.ClientSecret) # "" =>
         credentials[1].ClientSecret = Overridden("ARM_CLIENT_SECRET", config.ClientSecret)
    /\ providerContext # Nil =>
         providerContext[1].SubscriptionID
           = Overridden("ARM_SUBSCRIPTION_ID", config.SubscriptionID)

\* What belongs to one invocation of a handler of instance x, and to the
\* instance: its position, request, locals, diagnostics, calls, Terraform
\* state and configured fields.
Locals(x) ==
  <<pc[x], op[x], diag[x], data[x], oldData[x], plan[x], calls[x], tagInheritance[x],
    state[x], rSubscriptionID[x]>>

LifecycleHandlers == {"Create", "Read", "Update", "Delete", "Import"}

\* C17: with the handlers of different instances running concurrently, a
\* step of one instance's Create, Read, Update, Delete or Import leaves the
\* position, request, locals, diagnostics and state of every other
\* instance as they were, and it leaves the provider context, the
\* credentials and the r.SubscriptionID of every instance as they were.
C17_NoSharedMutableState ==
  [][\A r \in Resources :
       (pc'[r] # pc[r] /\ op'[r] \in LifecycleHandlers) =>
         /\ \A x \in Resources \ {r} : Locals(x)' = Locals(x)
         /\ UNCHANGED <<providerVars, rSubscriptionID>>]_vars

\* Two handlers in flight at once, each between its two Azure calls.
C17_Witness ==
  /\ pc["r1"] = "create_enable"
  /\ pc["r2"] = "update_enable"
  /\ providerContext # Nil
  /\ \A r \in Resources : rSubscriptionID[r] = providerContext[1].SubscriptionID

\* C18 as stated: when a Create with inherit_tags = true succeeded and
\* nobody else wrote the subscription's tags or its setting since, a Read
\* that succeeds before the instance's next Create / Update / Delete writes
\* inherit_tags = true and the prefer_containers that the Create wrote, so
\* the state after the Read is the state after the Create.
C18_InheritanceRoundTrip ==
  \A r \in Resources :
    (Succeeded(r, "Read") /\ createdInherit[r] # Nil) =>
      /\ state[r][1].InheritTags
      /\ state[r][1].PreferContainers = createdInherit[r][1]
      /\ (createdTags[r] # Nil /\ untouched[r]) => state[r] = oldData[r]

\* C19 as stated: an Update whose plan has inherit_tags = true, whatever
\* inherit_tags its prior state has, ends having issued exactly one
\* EnableTagInheritance, with the planned prefer_containers in its body; on
\* a response with a non-empty identifier it writes inherit_tags = true and
\* the response's preferContainerTags to state; and when Azure already
\* holds the setting this Update asks for, as after the same Update before,
\* the call leaves the setting as it is.
C19_UpdateEnables ==
  [][\A r \in Resources :
       (HandlerStep(r, "Update") /\ pc'[r] = "done" /\ plan'[r][1].InheritTags) =>
         /\ Len(calls'[r]) = 2
         /\ NumCalls(calls'[r], "EnableTagInheritance") = 1
         /\ calls'[r][2].api = "EnableTagInheritance"
         /\ calls'[r][2].body = Ptr(TagInheritanceRequest(plan'[r][1].PreferContainers))
         /\ (~diag'[r] /\ tagInheritance'[r][1].Id # "") =>
              /\ state'[r][1].InheritTags
              /\ state'[r][1].PreferContainers = tagInheritance'[r][1].PreferContainerTags
         /\ (/\ azInherit[TagInheritanceUrlPath].Id # ""
             /\ azInherit[TagInheritanceUrlPath].PreferContainerTags
                  = plan'[r][1].PreferContainers) =>
              azInherit' = azInherit]_vars

\* C19 (amended): the same for an Update whose plan has inherit_tags = true
\* and whose tags call succeeded.
C19_UpdateEnablesAfterTags ==
  [][\A r \in Resources :
       (/\ HandlerStep(r, "Update") /\ pc'[r] = "done" /\ plan'[r][1].InheritTags
        /\ calls'[r][1].ok) =>
         /\ Len(calls'[r]) = 2
         /\ NumCalls(calls'[r], "EnableTagInheritance") = 1
         /\ calls'[r][2].api = "EnableTagInheritance"
         /\ calls'[r][2].body = Ptr(TagInheritanceRequest(plan'[r][1].PreferContainers))
         /\ (~diag'[r] /\ tagInheritance'[r][1].Id # "") =>
              /\ state'[r][1].InheritTags
              /\ state'[r][1].PreferContainers = tagInheritance'[r][1].PreferContainerTags
         /\ (/\ azInherit[TagInheritanceUrlPath].Id # ""
             /\ azInherit[TagInheritanceUrlPath].PreferContainerTags
                  = plan'[r][1].PreferContainers) =>
              azInherit' = azInherit]_vars

\* An Update that enabled inheritance for a state that had it off and wrote
\* the prefer_containers of Azure's response, which was not the planned one.
C19_Witness ==
  /\ Succeeded(Instance, "Update")
  /\ ~oldData[Instance][1].InheritTags /\ plan[Instance][1].InheritTags
  /\ NumCalls(calls[Instance], "EnableTagInheritance") = 1
  /\ tagInheritance[Instance][1].Id # ""
  /\ tagInheritance[Instance][1].PreferContainerTags # plan[Instance][1].PreferContainers
  /\ state[Instance][1].PreferContainers = tagInheritance[Instance][1].PreferContainerTags

\* The mapping t holds the tags of the Azure tag map stored key by key:
\* every key with a value, with that value; no key without value; no other
\* key.
KeyByKey(stored, t) ==
  /\ \A k \in DOMAIN stored : stored[k] # Nil => (k \in DOMAIN t /\ t[k] = stored[k][1])
  /\ \A k \in DOMAIN stored : stored[k] = Nil => k \notin DOMAIN t
  /\ DOMAIN t \subseteq DOMAIN stored

\* C20: the tags a Read takes from a GetAtScope response are the response's
\* tags key by key: each tag with a non-null value with exactly that value,
\* no tag with a null value, no key the response does not have, and the
\* empty mapping for a response without properties or without a tag map;
\* and these are the tags a successful Read writes to state.
C20_ReadTagsKeyByKey ==
  [][\A r \in Resources :
       /\ \A tagsResponse \in TagsResponses(azTags[MyScope(r)]) :
            /\ (tagsResponse.HasProperties /\ tagsResponse.HasTags)
                 => KeyByKey(tagsResponse.Tags, TfTags(tagsResponse))
            /\ ~(tagsResponse.HasProperties /\ tagsResponse.HasTags)
                 => TfTags(tagsResponse) = EmptyTags
       /\ (HandlerStep(r, "Read") /\ Issued(r, "GetAtScope") /\ calls'[r][1].ok)
            => KeyByKey(azTags[MyScope(r)], data'[r][1].Tags)
       /\ (HandlerStep(r, "Read") /\ pc'[r] = "done" /\ ~diag'[r])
            => (state'[r][1].Tags = data[r][1].Tags /\ KeyByKey(azTags[MyScope(r)], state'[r][1].Tags))]_vars

\* A Read of a subscription with one tag that has a value and one that has
\* none: the state has the first and not the second.
C20_Witness ==
  /\ Succeeded(Instance, "Read")
  /\ \E k1, k2 \in DOMAIN azTags[MyScope(Instance)] :
       /\ azTags[MyScope(Instance)][k1] # Nil
       /\ azTags[MyScope(Instance)][k2] = Nil
       /\ DOMAIN state[Instance][1].Tags = {k1}
       /\ state[Instance][1].Tags[k1] = azTags[MyScope(Instance)][k1][1]

\* C21: the calls of a Delete are at most one CreateOrUpdateAtScope, with
\* the empty mapping, and after it at most one DisableTagInheritance, and
\* no other call; a Delete of a state with ondelete_remove_tags and
\* ondelete_remove_inherit_tags both false issues no call and leaves the
\* tags and the tag-inheritance setting as they were.
C21_DeleteCalls ==
  [][\A r \in Resources :
       HandlerStep(r, "Delete") =>
         /\ \A i \in 1..Len(calls'[r]) :
              calls'[r][i].api \in {TagsWriteApi, "DisableTagInheritance"}
         /\ NumCalls(calls'[r], TagsWriteApi) <= 1
         /\ NumCalls(calls'[r], "DisableTagInheritance") <= 1
         /\ \A i \in CallsTo(calls'[r], TagsWriteApi) :
              i = 1 /\ calls'[r][i].body = Ptr(EmptyTags)
         /\ (~oldData'[r][1].RemoveTags /\ ~oldData'[r][1].RemoteInheritTags) =>
              /\ calls'[r] = <<>>
              /\ azTags' = azTags
              /\ azInherit' = azInherit
              /\ pc'[r] = "done" /\ ~diag'[r]]_vars

\* A Delete with both ondelete flags false of a state with inherit_tags =
\* true, on a subscription that has tags and a setting.
C21_Witness ==
  /\ Succeeded(Instance, "Delete")
  /\ ~oldData[Instance][1].RemoveTags /\ ~oldData[Instance][1].RemoteInheritTags
  /\ oldData[Instance][1].InheritTags
  /\ calls[Instance] = <<>>
  /\ azTags[MyScope(Instance)] # EmptyTags
  /\ azInherit[TagInheritanceUrlPath].Id # ""

TagsApis == {"GetAtScope", "CreateOrUpdateAtScope"}
TagsCalls(cs) == {i \in 1..Len(cs) : cs[i].api \in TagsApis}
MidHandler == {"create_enable", "read_inherit", "update_enable",
               "update_disable", "delete_disable"}

\* C22: no Create, Read, Update or Delete repeats a call: every step of a
\* handler issues at most one Azure call, the handler's log never holds more
\* than one tags call, more than one tag-inheritance call or more than two
\* calls, and a handler is over after its second step at the latest (the
\* first step leaves the start, the second ends the handler).
C22_NoRetry ==
  [][\A r \in Resources :
       ((pc'[r] # pc[r] \/ calls'[r] # calls[r]) /\ op'[r] \in LifecycleHandlers) =>
         /\ Len(calls'[r]) <= 2
         /\ Cardinality(TagsCalls(calls'[r])) <= 1
         /\ Cardinality(SettingsCalls(calls'[r])) <= 1
         /\ Len(calls'[r]) <= (IF pc[r] \in MidHandler THEN Len(calls[r]) ELSE 0) + 1
         /\ pc[r] \in MidHandler => pc'[r] = "done"
         /\ pc[r] = "idle" => pc'[r] \in MidHandler \cup {"done"}]_vars

\* A Create whose second call failed and was not issued again.
C22_Witness ==
  /\ Done(Instance, "Create") /\ diag[Instance]
  /\ Len(calls[Instance]) = 2
  /\ calls[Instance][1].api = "CreateOrUpdateAtScope" /\ calls[Instance][1].ok
  /\ calls[Instance][2].api = "EnableTagInheritance" /\ ~calls[Instance][2].ok

\* C23 as stated: when an Update from inherit_tags = true to false succeeded
\* (one DisableTagInheritance call) and nobody else wrote the setting since,
\* a Read that succeeds before the instance's next Create / Update / Delete
\* writes inherit_tags = false to state.
C23_DisableConverges ==
  \A r \in Resources :
    (Succeeded(r, "Read") /\ disabledInherit[r]) => ~state[r][1].InheritTags

\* C24: a Create whose plan has inherit_tags = false issues no call to the
\* settings endpoint and leaves every stored setting as it is, and when it
\* succeeds the state holds inherit_tags = false and the planned
\* prefer_containers; this is so whether or not a setting is stored.
C24_CreateWithoutInheritance ==
  [][\A r \in Resources :
       (HandlerStep(r, "Create") /\ ~plan'[r][1].InheritTags) =>
         /\ SettingsCalls(calls'[r]) = {}
         /\ azInherit' = azInherit
         /\ pc'[r] = "done"
         /\ ~diag'[r] =>
              /\ state'[r] # Nil
              /\ ~state'[r][1].InheritTags
              /\ state'[r][1].PreferContainers = plan'[r][1].PreferContainers]_vars

\* Such a Create with prefer_containers = true on a subscription whose stored
\* setting prefers the resources' own tags.
C24_Witness ==
  /\ Succeeded(Instance, "Create")
  /\ ~plan[Instance][1].InheritTags /\ plan[Instance][1].PreferContainers
  /\ state[Instance] = plan[Instance]
  /\ calls[Instance] # <<>> /\ SettingsCalls(calls[Instance]) = {}
  /\ azInherit[TagInheritanceUrlPath].Id # ""
  /\ ~azInherit[TagInheritanceUrlPath].PreferContainerTags

\* C25: when the tags call of a Create or Update succeeded and the
\* EnableTagInheritance or DisableTagInheritance call after it fails, the
\* failing step leaves the subscription's tags as they are (no rollback) and
\* the handler ends with an error and the state it started from; if nobody
\* else wrote the tags in between, they are the planned mapping.
C25_PartialApplication ==
  [][\A r \in Resources :
       ( /\ op'[r] \in {"Create", "Update"}
         /\ \/ Issued(r, "EnableTagInheritance")
            \/ Issued(r, "DisableTagInheritance")
         /\ ~calls'[r][Len(calls'[r])].ok ) =>
         /\ Len(calls'[r]) = 2
         /\ calls'[r][1].api = TagsWriteApi /\ calls'[r][1].ok
         /\ calls'[r][1].body = Ptr(AzureTags(plan'[r][1].Tags))
         /\ azTags' = azTags
         /\ untouched[r] => SameTags(azTags'[MyScope(r)], plan'[r][1].Tags)
         /\ pc'[r] = "done" /\ diag'[r]
         /\ state'[r] = oldData'[r]]_vars

\* An Update that replaced the tags (none before) and then failed to disable
\* inheritance: new tags in Azure, old state in Terraform.
C25_Witness ==
  /\ Done(Instance, "Update") /\ diag[Instance]
  /\ Len(calls[Instance]) = 2
  /\ calls[Instance][2].api = "DisableTagInheritance" /\ ~calls[Instance][2].ok
  /\ oldData[Instance][1].Tags = EmptyTags
  /\ plan[Instance][1].Tags # EmptyTags
  /\ SameTags(azTags[MyScope(Instance)], plan[Instance][1].Tags)
  /\ state[Instance] = oldData[Instance]

\* C26: every tags call in the log of a Create, Read, Update or Delete, of
\* any instance, goes to /subscriptions/{id} with id the subscription ID of
\* the provider context, whatever the plan, the prior state and the
\* identifier of an earlier ImportState are.
C26_TagsScope ==
  \A r \in Resources :
    \A i \in TagsCalls(calls[r]) :
      /\ providerContext # Nil
      /\ calls[r][i].target = "/subscriptions/" \o providerContext[1].SubscriptionID

\* An Update that replaced the tags of its prior state, at the provider's
\* scope, while the other subscription exists.
C26_Witness ==
  /\ Succeeded(Instance, "Update")
  /\ oldData[Instance][1].Tags # plan[Instance][1].Tags
  /\ oldData[Instance][1].Tags # EmptyTags /\ plan[Instance][1].Tags # EmptyTags
  /\ calls[Instance][1].api = TagsWriteApi
  /\ calls[Instance][1].target = "/subscriptions/" \o providerContext[1].SubscriptionID
  /\ \E s \in SubIds : s # providerContext[1].SubscriptionID

\* Both instances have finished a Create or Update without error and
\* neither handler has returned yet.
BothFinished(r1, r2) ==
  /\ r1 # r2
  /\ \A r \in {r1, r2} : \E o \in {"Create", "Update"} : Succeeded(r, o)

\* C27: when two instances have both finished a Create or Update, with
\* mappings M1 and M2, both have written the same scope, and the tags of
\* that scope are M1 in full or M2 in full; when M1 and M2 differ, the tags
\* recorded in the state of at least one of the two differ from the live
\* tags.
C27_LastWriterWins ==
  \A r1, r2 \in Resources :
    BothFinished(r1, r2) =>
      LET M1 == plan[r1][1].Tags
          M2 == plan[r2][1].Tags
          live == azTags[MyScope(r1)] IN
      /\ calls[r1][1].target = calls[r2][1].target
      /\ calls[r1][1].target = MyScope(r1)
      /\ SameTags(live, M1) \/ SameTags(live, M2)
      /\ M1 # M2 => \E r \in {r1, r2} : ~SameTags(live, state[r][1].Tags)

\* Both finished with different keys; the subscription holds the second
\* instance's tags only, the first instance's state holds its own.
C27_Witness ==
  /\ BothFinished("r1", "r2")
  /\ DOMAIN plan["r1"][1].Tags # DOMAIN plan["r2"][1].Tags
  /\ SameTags(azTags[MyScope("r1")], plan["r2"][1].Tags)
  /\ state["r1"][1].Tags = plan["r1"][1].Tags
  /\ pc["r1"] = "done" /\ Len(calls["r1"]) = 2 /\ Len(calls["r2"]) = 2

\* C28: a Create or Update whose EnableTagInheritance call came back without
\* error and with an empty identifier ends without error and with the plan
\* in the state: inherit_tags = true and the planned prefer_containers,
\* whatever preferContainerTags the response carries.
C28_EnableWithoutId ==
  \A r \in Resources :
    \A o \in {"Create", "Update"} :
      ( /\ Done(r, o) /\ Len(calls[r]) = 2
        /\ calls[r][2].api = "EnableTagInheritance" /\ calls[r][2].ok
        /\ tagInheritance[r][1].Id = "" ) =>
        /\ ~diag[r]
        /\ state[r] = plan[r]
        /\ state[r][1].InheritTags
        /\ state[r][1].PreferContainers = plan[r][1].PreferContainers

\* Such an Update with prefer_containers = true, answered with
\* preferContainerTags = false.
C28_Witness ==
  /\ Succeeded(Instance, "Update")
  /\ Len(calls[Instance]) = 2
  /\ calls[Instance][2].api = "EnableTagInheritance" /\ calls[Instance][2].ok
  /\ tagInheritance[Instance][1].Id = ""
  /\ ~tagInheritance[Instance][1].PreferContainerTags
  /\ plan[Instance][1].PreferContainers
  /\ state[Instance][1].InheritTags /\ state[Instance][1].PreferContainers

\* C29: after a Create or Update that ended without error, the tags in the
\* state are the tags of the plan, also when the subscription holds other
\* tags by then.
C29_StateTagsArePlanTags ==
  \A r \in Resources :
    \A o \in {"Create", "Update"} :
      Succeeded(r, o) => state[r] # Nil /\ state[r][1].Tags = plan[r][1].Tags

\* An Update whose tags were replaced by somebody else before it disabled
\* inheritance: the state holds the plan's tags, the subscription does not.
C29_Witness ==
  /\ Succeeded(Instance, "Update") /\ Len(calls[Instance]) = 2
  /\ plan[Instance][1].Tags # EmptyTags
  /\ state[Instance][1].Tags = plan[Instance][1].Tags
  /\ ~SameTags(azTags[MyScope(Instance)], plan[Instance][1].Tags)

====
